---- MODULE Spec2Model ----
(***************************************************************************)
(* A model of src/main.py of osintaam: the OSINTSearcher class (the HTTP   *)
(* gateway safe_request, the five category operations, export_results,    *)
(* save_results) and the command-line shell main().                        *)
(*                                                                         *)
(* Python values are modelled as tagged tuples: <<"str", s>>, <<"bool", b>>,*)
(* <<"int", n>>, <<"list", items>> and <<"dict", pairs>>, where pairs is   *)
(* the sequence of <<key, value>> in insertion order (a Python dict keeps  *)
(* insertion order, and export_results iterates in that order).  Text is   *)
(* modelled by real strings, built with \o.                                *)
(***************************************************************************)
EXTENDS Naturals, Sequences, FiniteSets, TLC

\* ------------------------------------------------------------------ bounds

\* The wall clock runs from 0 to MaxClock.
MaxClock == 1
\* At most this many search_username invocations in one session.
MaxUsernameCalls == 2

\* ------------------------------------------------------- program constants

\* "="*50, the banner of the txt export.
BannerWidth == 50
\* json.dumps(..., indent=2)
IndentWidth == 2

\* ---------------------------------------------------------------- inputs

\* The strings handed to the category operations as email, username,
\* domain, phone or query.  None of them holds a character json.dumps escapes.
Targets == {"octocat", "john_doe"}

\* The usernames handed to search_username.
Usernames == {"octocat"}

\* The format strings handed to export_results.
Formats == {"json", "JSON", "Json", "txt", "TXT", "csv", "CSV", "xml", ""}

\* The --output argument of the shell: "" is the option left out.
Outputs == {"", "out.json"}

\* ---------------------------------------------------------- Python values

Str(s) == <<"str", s>>
Bool(b) == <<"bool", b>>
Int(n) == <<"int", n>>
List(items) == <<"list", items>>
Dict(pairs) == <<"dict", pairs>>

Kind(v) == v[1]
Val(v) == v[2]

\* The keys of a dict, in insertion order.
Keys(d) == [i \in 1..Len(Val(d)) |-> Val(d)[i][1]]

HasKey(d, k) == \E i \in 1..Len(Val(d)) : Val(d)[i][1] = k

\* How many entries of the dict carry key k.
KeyCount(d, k) == Cardinality({i \in 1..Len(Val(d)) : Val(d)[i][1] = k})

\* d[k]
Get(d, k) == Val(d)[CHOOSE i \in 1..Len(Val(d)) : Val(d)[i][1] = k][2]

\* d[k] = v: an existing key keeps its place, a new key goes last.
DictSet(d, k, v) ==
    IF HasKey(d, k)
    THEN Dict([i \in 1..Len(Val(d)) |->
                 IF Val(d)[i][1] = k THEN <<k, v>> ELSE Val(d)[i]])
    ELSE Dict(Append(Val(d), <<k, v>>))

\* ------------------------------------------------------------------ text

RECURSIVE Repeat(_, _)
Repeat(s, n) == IF n = 0 THEN "" ELSE s \o Repeat(s, n - 1)

\* str.lower() on the format strings.
Lower(s) ==
    CASE s = "JSON" -> "json"
      [] s = "Json" -> "json"
      [] s = "TXT" -> "txt"
      [] s = "CSV" -> "csv"
      [] OTHER -> s

\* str.upper() on the top-level keys of the records.
Upper(s) ==
    CASE s = "email" -> "EMAIL"
      [] s = "username" -> "USERNAME"
      [] s = "domain" -> "DOMAIN"
      [] s = "phone" -> "PHONE"
      [] s = "query" -> "QUERY"
      [] s = "breaches" -> "BREACHES"
      [] s = "platforms" -> "PLATFORMS"
      [] s = "information" -> "INFORMATION"
      [] s = "breaches_found" -> "BREACHES_FOUND"
      [] s = "sources" -> "SOURCES"
      [] s = "sources_checked" -> "SOURCES_CHECKED"
      [] s = "tor_monitoring" -> "TOR_MONITORING"
      [] s = "search_date" -> "SEARCH_DATE"
      [] s = "legal_notice" -> "LEGAL_NOTICE"
      [] OTHER -> s

\* A JSON string literal.  The strings of the model hold no quote, backslash
\* or control character, so the escaping leaves their characters as they are.
Quote(s) == "\"" \o s \o "\""

\* json.dumps(v, indent=2, ensure_ascii=False), v at nesting depth level.
RECURSIVE Dumps(_, _)
RECURSIVE DumpItems(_, _, _)
RECURSIVE DumpPairs(_, _, _)
Dumps(v, level) ==
    CASE Kind(v) = "str" -> Quote(Val(v))
      [] Kind(v) = "bool" -> (IF Val(v) THEN "true" ELSE "false")
      [] Kind(v) = "int" -> ToString(Val(v))
      [] Kind(v) = "list" ->
            IF Val(v) = <<>> THEN "[]"
            ELSE "[\n" \o DumpItems(Val(v), 1, level + 1)
                 \o "\n" \o Repeat(" ", IndentWidth * level) \o "]"
      [] Kind(v) = "dict" ->
            IF Val(v) = <<>> THEN "{}"
            ELSE "{\n" \o DumpPairs(Val(v), 1, level + 1)
                 \o "\n" \o Repeat(" ", IndentWidth * level) \o "}"

DumpItems(items, i, level) ==
    Repeat(" ", IndentWidth * level) \o Dumps(items[i], level)
    \o (IF i = Len(items) THEN "" ELSE ",\n" \o DumpItems(items, i + 1, level))

DumpPairs(pairs, i, level) ==
    Repeat(" ", IndentWidth * level) \o Quote(pairs[i][1]) \o ": "
    \o Dumps(pairs[i][2], level)
    \o (IF i = Len(pairs) THEN "" ELSE ",\n" \o DumpPairs(pairs, i + 1, level))

\* datetime.isoformat() of the clock reading t.
IsoFormat(t) == "2026-11-05T08:00:0" \o ToString(t)

\* ----------------------------------------------------------------- state

VARIABLES
    caller,             \* who drives the searcher: "cli" (main) or "lib" (a client calling the methods)
    pc,                 \* "ready", "loop", "wait", "display", "exit", "raised"
    clock,              \* the wall clock datetime.now() reads
    born,               \* the clock reading at construction
    search_timestamp,   \* self.search_timestamp
    results,            \* self.results
    ret,                \* the record the last category operation returned
    frame,              \* the locals of the search_username invocation in progress
    trace,              \* the gateway events so far, oldest first
    nUsername,          \* search_username invocations started
    snapshot,           \* a record some earlier placeholder operation returned
    since,              \* since the snapshot: 0 nothing returned, 1 only placeholder
                        \* operations returned, 2 a search_username returned too
    exported,           \* the last export_results call a client made, and what it returned
    stdout,             \* what main printed, one string per print call
    file,               \* the --output file
    exit_code           \* the exit status of the process: "none", "0" or "1"

vars == <<caller, pc, clock, born, search_timestamp, results, ret, frame, trace,
          nUsername, snapshot, since, exported, stdout, file, exit_code>>

NoRecord == <<"none", <<>>>>
NoOutcome == [kind |-> "none", code |-> 0, cls |-> "", msg |-> ""]
NoFrame == [username |-> "", i |-> 0, results |-> NoRecord,
            outcome |-> NoOutcome, response |-> NoRecord]
NoExport == [format |-> "-", out |-> ""]
NoFile == [exists |-> FALSE, content |-> ""]

\* ------------------------------------------------------------ HTTP gateway

\* What session.get(url, ...) followed by response.raise_for_status() can meet:
\* a response with a status code, or an exception raised on the way.
Response(code) == [kind |-> "response", code |-> code, cls |-> "", msg |-> ""]
Raise(cls, msg) == [kind |-> "raise", code |-> 0, cls |-> cls, msg |-> msg]

StatusCodes == {200, 404, 500}

Outcomes ==
    {Response(c) : c \in StatusCodes}
    \cup {Raise("ReadTimeout", "read timed out"),
          Raise("ConnectTimeout", "connect timed out"),
          Raise("ConnectionError", "connection refused"),
          Raise("TooManyRedirects", "Exceeded 30 redirects."),
          Raise("MemoryError", "")}

\* The classes an exception of class cls is an instance of (isinstance).
\* requests.exceptions.ConnectTimeout derives from ConnectionError and Timeout.
Ancestors(cls) ==
    CASE cls = "ReadTimeout" ->
            {"ReadTimeout", "Timeout", "RequestException", "Exception"}
      [] cls = "ConnectTimeout" ->
            {"ConnectTimeout", "ConnectionError", "Timeout", "RequestException",
             "Exception"}
      [] cls = "ConnectionError" ->
            {"ConnectionError", "RequestException", "Exception"}
      [] cls = "HTTPError" -> {"HTTPError", "RequestException", "Exception"}
      [] cls = "TooManyRedirects" ->
            {"TooManyRedirects", "RequestException", "Exception"}
      [] cls = "MemoryError" -> {"MemoryError", "Exception"}
      [] OTHER -> {cls}

IsInstance(e, cls) == cls \in Ancestors(e.cls)

\* response.raise_for_status(): a 4xx or 5xx status raises HTTPError.
RaiseForStatus(o) ==
    IF o.kind = "response" /\ o.code >= 400 /\ o.code < 600
    THEN Raise("HTTPError",
               ToString(o.code) \o (IF o.code < 500 THEN " Client Error"
                                                    ELSE " Server Error"))
    ELSE o

ErrorResponse(message) ==
    Dict(<< <<"status", Str("error")>>, <<"error", Str(message)>> >>)

\* An exception no except clause of safe_request matches leaves safe_request.
Uncaught == <<"uncaught", <<>>>>

\* safe_request without its last clause, except Exception.
safe_request_no_catch_all(o) ==
    LET e == RaiseForStatus(o) IN
    IF e.kind = "response"
    THEN Dict(<< <<"status", Str("success")>>,
                 <<"code", Int(e.code)>>,
                 <<"content", Str("")>>,
                 <<"headers", Dict(<<>>)>> >>)
    ELSE IF IsInstance(e, "Timeout") THEN ErrorResponse("Request timeout")
    ELSE IF IsInstance(e, "ConnectionError") THEN ErrorResponse("Connection failed")
    ELSE IF IsInstance(e, "HTTPError") THEN ErrorResponse("HTTP Error")
    ELSE Uncaught

\* safe_request with the except clauses for Timeout and ConnectionError swapped.
safe_request_connection_first(o) ==
    LET e == RaiseForStatus(o) IN
    IF e.kind = "response"
    THEN Dict(<< <<"status", Str("success")>>,
                 <<"code", Int(e.code)>>,
                 <<"content", Str("")>>,
                 <<"headers", Dict(<<>>)>> >>)
    ELSE IF IsInstance(e, "ConnectionError") THEN ErrorResponse("Connection failed")
    ELSE IF IsInstance(e, "Timeout") THEN ErrorResponse("Request timeout")
    ELSE IF IsInstance(e, "HTTPError") THEN ErrorResponse("HTTP Error")
    ELSE IF IsInstance(e, "Exception") THEN ErrorResponse(e.msg)
    ELSE Uncaught

\* safe_request(url), given what the request met: the GatewayResponse.
safe_request(o) ==
    LET e == RaiseForStatus(o) IN
    IF e.kind = "response"
    THEN Dict(<< <<"status", Str("success")>>,
                 <<"code", Int(e.code)>>,
                 <<"content", Str("")>>,
                 <<"headers", Dict(<<>>)>> >>)
    ELSE IF IsInstance(e, "Timeout") THEN ErrorResponse("Request timeout")
    ELSE IF IsInstance(e, "ConnectionError") THEN ErrorResponse("Connection failed")
    ELSE IF IsInstance(e, "HTTPError") THEN ErrorResponse("HTTP Error")
    ELSE IF IsInstance(e, "Exception") THEN ErrorResponse(e.msg)
    ELSE Uncaught

\* ---------------------------------------------------- category operations

search_email_breach(email) ==
    Dict(<< <<"email", Str(email)>>,
            <<"breaches", List(<<>>)>>,
            <<"search_date", Str(search_timestamp)>>,
            <<"sources", List(<<Str("HaveIBeenPwned"),
                               Str("Public Breach Databases")>>)>> >>)

search_domain_info(domain) ==
    Dict(<< <<"domain", Str(domain)>>,
            <<"information", Dict(<<>>)>>,
            <<"search_date", Str(search_timestamp)>>,
            <<"sources", List(<<Str("Public DNS"), Str("Domain Registry")>>)>> >>)

\* search_phone_breach naming its source list 'sources'.
search_phone_breach_sources(phone) ==
    Dict(<< <<"phone", Str(phone)>>,
            <<"breaches_found", Bool(FALSE)>>,
            <<"sources", List(<<Str("Public breach databases"),
                                Str("Registered leak sites")>>)>>,
            <<"search_date", Str(search_timestamp)>> >>)

search_phone_breach(phone) ==
    Dict(<< <<"phone", Str(phone)>>,
            <<"breaches_found", Bool(FALSE)>>,
            <<"sources_checked", List(<<Str("Public breach databases"),
                                        Str("Registered leak sites")>>)>>,
            <<"search_date", Str(search_timestamp)>> >>)

\* search_tor_monitoring stamping the record with the time of the call.
search_tor_monitoring_fresh_date(query) ==
    Dict(<< <<"query", Str(query)>>,
            <<"tor_monitoring",
              Dict(<< <<"status", Str("monitored")>>,
                      <<"sources", List(<<Str("Threat Intelligence Feeds"),
                                         Str("Public Forum Monitoring"),
                                         Str("Leak Database Aggregators")>>)>>,
                      <<"findings", List(<<>>)>> >>)>>,
            <<"search_date", Str(IsoFormat(clock))>>,
            <<"legal_notice",
              Str("This data comes from publicly available monitoring services only")>> >>)

search_tor_monitoring(query) ==
    Dict(<< <<"query", Str(query)>>,
            <<"tor_monitoring",
              Dict(<< <<"status", Str("monitored")>>,
                      <<"sources", List(<<Str("Threat Intelligence Feeds"),
                                         Str("Public Forum Monitoring"),
                                         Str("Leak Database Aggregators")>>)>>,
                      <<"findings", List(<<>>)>> >>)>>,
            <<"search_date", Str(search_timestamp)>>,
            <<"legal_notice",
              Str("This data comes from publicly available monitoring services only")>> >>)

\* The record of search_username stamped with the time of the call.
UsernameRecord_fresh_date(username) ==
    Dict(<< <<"username", Str(username)>>,
            <<"platforms", Dict(<<>>)>>,
            <<"search_date", Str(IsoFormat(clock))>> >>)

\* search_username: the record before the loop.
UsernameRecord(username) ==
    Dict(<< <<"username", Str(username)>>,
            <<"platforms", Dict(<<>>)>>,
            <<"search_date", Str(search_timestamp)>> >>)

\* search_username: the platform table, in insertion order.
Platforms(username) ==
    << <<"github", "https://api.github.com/users/" \o username>>,
       <<"linkedin", "https://www.linkedin.com/in/" \o username>> >>

\* search_username: the outcome recorded for one platform.
PlatformOutcome(response, url) ==
    IF Get(response, "status") = Str("success")
    THEN Dict(<< <<"found", Bool(TRUE)>>,
                 <<"url", Str(url)>>,
                 <<"status_code", Get(response, "code")>> >>)
    ELSE Dict(<< <<"found", Bool(FALSE)>>,
                 <<"error", IF HasKey(response, "error")
                            THEN Get(response, "error")
                            ELSE Str("Unknown error")>> >>)

\* search_username: results['platforms'][platform] = outcome
SetPlatform(rec, platform, outcome) ==
    DictSet(rec, "platforms", DictSet(Get(rec, "platforms"), platform, outcome))

\* The loop staying on a platform whose request failed (a retry).
NextPlatform_retry(i, response) ==
    IF Get(response, "status") = Str("success") THEN i + 1 ELSE i

\* search_username: the loop moves to the next platform of the table.
NextPlatform(i, response) == i + 1

\* ------------------------------------------------------------------ export

\* export_results falling back to the txt form.
export_results_fallback_txt(format) ==
    LET RECURSIVE Blocks(_)
        Blocks(i) ==
            IF i > Len(Val(results)) THEN ""
            ELSE "\n" \o Upper(Val(results)[i][1]) \o ":\n"
                 \o Dumps(Val(results)[i][2], 0) \o "\n" \o Blocks(i + 1)
    IN IF Lower(format) = "json" THEN Dumps(results, 0)
       ELSE Repeat("=", BannerWidth) \o "\n"
            \o "OSINTAAM Search Results\n"
            \o "Generated: " \o search_timestamp \o "\n"
            \o Repeat("=", BannerWidth) \o "\n"
            \o Blocks(1)

\* export_results(format): the string it returns for the stored result.
export_results(format) ==
    IF Lower(format) = "json" THEN Dumps(results, 0)
    ELSE IF Lower(format) = "txt"
    THEN LET RECURSIVE Blocks(_)
             Blocks(i) ==
                 IF i > Len(Val(results)) THEN ""
                 ELSE "\n" \o Upper(Val(results)[i][1]) \o ":\n"
                      \o Dumps(Val(results)[i][2], 0) \o "\n" \o Blocks(i + 1)
         IN Repeat("=", BannerWidth) \o "\n"
            \o "OSINTAAM Search Results\n"
            \o "Generated: " \o search_timestamp \o "\n"
            \o Repeat("=", BannerWidth) \o "\n"
            \o Blocks(1)
    ELSE Dumps(results, 0)

\* save_results defaulting to the format main prints.
DefaultSaveFormat_txt == "txt"

\* save_results(filename) as main calls it: the format is the default one.
DefaultSaveFormat == "json"

\* save_results(filename, format): the file afterwards.  io is what the file
\* system does: "ok", "open_fails" (IOError before anything is written) or
\* "write_fails" (IOError after the file was opened and truncated).
save_results(format, io) ==
    CASE io = "ok" -> [exists |-> TRUE, content |-> export_results(format)]
      [] io = "open_fails" -> file
      [] io = "write_fails" -> [exists |-> TRUE, content |-> ""]

IoOutcomes == {"ok", "open_fails", "write_fails"}

\* main dropping the record: self.results stays what it was.
MainAssign_dropped(record) == results

\* main: searcher.results = searcher.search_...(target)
MainAssign(record) == record

\* ------------------------------------------------------------------ actions

\* OSINTSearcher(verify_ssl=True): the state after construction.
Init ==
    /\ caller \in {"cli", "lib"}
    /\ pc = "ready"
    /\ clock \in 0..MaxClock
    /\ born = clock
    /\ search_timestamp = IsoFormat(clock)
    /\ results = Dict(<<>>)
    /\ ret = NoRecord
    /\ frame = NoFrame
    /\ trace = <<>>
    /\ nUsername = 0
    /\ snapshot = NoRecord
    /\ since = 0
    /\ exported = NoExport
    /\ stdout = <<>>
    /\ file = NoFile
    /\ exit_code = "none"

\* Time passes.
Tick ==
    /\ clock < MaxClock
    /\ clock' = clock + 1
    /\ UNCHANGED <<caller, pc, born, search_timestamp, results, ret, frame, trace,
                   nUsername, snapshot, since, exported, stdout, file, exit_code>>

\* A category operation returns record to its caller.  remember: the observer
\* keeps this record to compare a later one against.
Returns(record, remember) ==
    /\ ret' = record
    /\ exported' = exported
    /\ IF remember
       THEN snapshot' = record /\ since' = 0
       ELSE /\ snapshot' = snapshot
            /\ since' = IF snapshot = NoRecord THEN 0
                        ELSE IF since = 2 \/ Val(record)[1][1] = "username" THEN 2
                        ELSE 1

\* A client calls one of the four placeholder methods.
CallPlaceholder(record, remember) ==
    /\ caller = "lib"
    /\ pc = "ready"
    /\ Returns(record, remember)
    /\ UNCHANGED <<caller, pc, clock, born, search_timestamp, results, frame, trace,
                   nUsername, stdout, file, exit_code>>

SearchEmailBreach(email, remember) ==
    CallPlaceholder(search_email_breach(email), remember)

SearchDomainInfo(domain, remember) ==
    CallPlaceholder(search_domain_info(domain), remember)

SearchPhoneBreach(phone, remember) ==
    CallPlaceholder(search_phone_breach(phone), remember)

SearchTorMonitoring(query, remember) ==
    CallPlaceholder(search_tor_monitoring(query), remember)

\* main dispatches one of the four placeholder commands and stores the record.
MainPlaceholder(record) ==
    /\ caller = "cli"
    /\ pc = "ready"
    /\ Returns(record, FALSE)
    /\ results' = MainAssign(record)
    /\ pc' = "display"
    /\ UNCHANGED <<caller, clock, born, search_timestamp, frame, trace, nUsername,
                   stdout, file, exit_code>>

MainEmail(target) == MainPlaceholder(search_email_breach(target))

MainDomain(target) == MainPlaceholder(search_domain_info(target))

MainPhone(target) == MainPlaceholder(search_phone_breach(target))

MainTor(query) == MainPlaceholder(search_tor_monitoring(query))

\* search_username(username) is entered, by a client or by main: the record and
\* the platform table are built, the loop is at its first platform.
SearchUsernameBegin(username) ==
    /\ pc = "ready"
    /\ nUsername < MaxUsernameCalls
    /\ nUsername' = nUsername + 1
    /\ frame' = [username |-> username, i |-> 1, results |-> UsernameRecord(username),
                 outcome |-> NoOutcome, response |-> NoRecord]
    /\ pc' = "loop"
    /\ UNCHANGED <<caller, clock, born, search_timestamp, results, ret, trace,
                   snapshot, since, exported, stdout, file, exit_code>>

\* safe_request(url) sends the GET for the platform the loop is at and blocks.
GatewayRequest ==
    /\ pc = "loop"
    /\ frame.i <= Len(Platforms(frame.username))
    /\ trace' = Append(trace, <<"request", Platforms(frame.username)[frame.i][1]>>)
    /\ pc' = "wait"
    /\ UNCHANGED <<caller, clock, born, search_timestamp, results, ret, frame,
                   nUsername, snapshot, since, exported, stdout, file, exit_code>>

\* The request ends with outcome o: safe_request returns its GatewayResponse and
\* the loop body records the platform's outcome.  An exception safe_request does
\* not catch leaves search_username; main turns it into exit status 1.
GatewayReturn(o) ==
    /\ pc = "wait"
    /\ LET platform == Platforms(frame.username)[frame.i][1]
           url == Platforms(frame.username)[frame.i][2]
           response == safe_request(o)
       IN IF response = Uncaught
          THEN /\ pc' = IF caller = "cli" THEN "exit" ELSE "raised"
               /\ exit_code' = IF caller = "cli" THEN "1" ELSE exit_code
               /\ frame' = NoFrame
               /\ trace' = Append(trace, <<"raise", platform>>)
          ELSE /\ pc' = "loop"
               /\ exit_code' = exit_code
               /\ frame' = [frame EXCEPT
                              !.results = SetPlatform(frame.results, platform,
                                                      PlatformOutcome(response, url)),
                              !.i = NextPlatform(frame.i, response),
                              !.outcome = o,
                              !.response = response]
               /\ trace' = Append(trace, <<"return", platform>>)
    /\ UNCHANGED <<caller, clock, born, search_timestamp, results, ret, nUsername,
                   snapshot, since, exported, stdout, file>>

\* The loop is over: search_username returns the record; main stores it.
SearchUsernameReturn ==
    /\ pc = "loop"
    /\ frame.i > Len(Platforms(frame.username))
    /\ Returns(frame.results, FALSE)
    /\ frame' = NoFrame
    /\ IF caller = "cli"
       THEN results' = MainAssign(frame.results) /\ pc' = "display"
       ELSE results' = results /\ pc' = "ready"
    /\ UNCHANGED <<caller, clock, born, search_timestamp, trace, nUsername, stdout,
                   file, exit_code>>

\* A client calls export_results(format) on the stored result.
ExportResults(format) ==
    /\ caller = "lib"
    /\ pc = "ready"
    /\ exported' = [format |-> format, out |-> export_results(format)]
    /\ UNCHANGED <<caller, pc, clock, born, search_timestamp, results, ret, frame,
                   trace, nUsername, snapshot, since, stdout, file, exit_code>>

\* main prints the results and, with --output, saves them; the process ends.
MainDisplayAndSave(output, io) ==
    /\ pc = "display"
    /\ stdout' = <<"\n" \o Repeat("=", BannerWidth),
                   "Search Results:",
                   Repeat("=", BannerWidth),
                   export_results("txt")>>
    /\ file' = IF output # "" THEN save_results(DefaultSaveFormat, io) ELSE file
    /\ pc' = "exit"
    /\ exit_code' = "0"
    /\ UNCHANGED <<caller, clock, born, search_timestamp, results, ret, frame, trace,
                   nUsername, snapshot, since, exported>>

Next ==
    \/ Tick
    \/ \E t \in Targets, remember \in BOOLEAN : SearchEmailBreach(t, remember)
    \/ \E t \in Targets, remember \in BOOLEAN : SearchDomainInfo(t, remember)
    \/ \E t \in Targets, remember \in BOOLEAN : SearchPhoneBreach(t, remember)
    \/ \E t \in Targets, remember \in BOOLEAN : SearchTorMonitoring(t, remember)
    \/ \E t \in Targets : MainEmail(t)
    \/ \E t \in Targets : MainDomain(t)
    \/ \E t \in Targets : MainPhone(t)
    \/ \E t \in Targets : MainTor(t)
    \/ \E u \in Usernames : SearchUsernameBegin(u)
    \/ GatewayRequest
    \/ \E o \in Outcomes : GatewayReturn(o)
    \/ SearchUsernameReturn
    \/ \E output \in Outputs, io \in IoOutcomes : MainDisplayAndSave(output, io)

Spec == Init /\ [][Next]_vars

\* ------------------------------------------- export_results as a function

\* search_username(username) run to its end, the two requests meeting o1 and o2.
search_username(username, o1, o2) ==
    LET table == Platforms(username)
        first == SetPlatform(UsernameRecord(username), table[1][1],
                             PlatformOutcome(safe_request(o1), table[1][2]))
    IN SetPlatform(first, table[2][1],
                   PlatformOutcome(safe_request(o2), table[2][2]))

\* A searcher whose stored result is any record a category operation can
\* return (stored as main stores it), or still the empty mapping.
InitExport ==
    /\ caller = "lib"
    /\ pc = "ready"
    /\ clock \in 0..MaxClock
    /\ born = clock
    /\ search_timestamp = IsoFormat(clock)
    /\ \E t \in Targets, u \in Usernames, o1 \in Outcomes, o2 \in Outcomes :
          \/ ret = NoRecord
          \/ ret = search_email_breach(t)
          \/ ret = search_domain_info(t)
          \/ ret = search_phone_breach(t)
          \/ ret = search_tor_monitoring(t)
          \/ ret = search_username(u, o1, o2)
    /\ results = IF ret = NoRecord THEN Dict(<<>>) ELSE MainAssign(ret)
    /\ frame = NoFrame
    /\ trace = <<>>
    /\ nUsername = 0
    /\ snapshot = NoRecord
    /\ since = 0
    /\ exported = NoExport
    /\ stdout = <<>>
    /\ file = NoFile
    /\ exit_code = "none"

NextExport == \E f \in Formats : ExportResults(f)

SpecExport == InitExport /\ [][NextExport]_vars

\* ------------------------------------------------------------------ claims

\* The category of a returned record: its first key.
Category(r) == IF Val(r) = <<>> THEN "none" ELSE Val(r)[1][1]

PlaceholderCategories == {"email", "domain", "phone", "query"}

\* The loop has just recorded the outcome of the platform at this index.
JustRecorded == pc = "loop" /\ frame.i > 1

RecordedRow == Platforms(frame.username)[frame.i - 1]

RecordedEntry == Get(Get(frame.results, "platforms"), RecordedRow[1])

\* C1: in search_username, a 'success' GatewayResponse is recorded as {found:
\* true, url: the requested URL, status_code: the response code}, and an error
\* GatewayResponse as found == false with a non-empty error string.
C1_OutcomeOfEveryResponse ==
    JustRecorded =>
        IF Get(frame.response, "status") = Str("success")
        THEN RecordedEntry = Dict(<< <<"found", Bool(TRUE)>>,
                                     <<"url", Str(RecordedRow[2])>>,
                                     <<"status_code", Get(frame.response, "code")>> >>)
        ELSE /\ Get(RecordedEntry, "found") = Bool(FALSE)
             /\ HasKey(RecordedEntry, "error")
             /\ Get(RecordedEntry, "error") # Str("")

\* C2: search_username never fails as a whole: whatever the two requests meet,
\* no exception leaves it, and the record it returns has exactly one entry for
\* github and one for linkedin, in that order.
C2_UsernameAlwaysReturnsBothPlatforms ==
    /\ pc # "raised"
    /\ exit_code # "1"
    /\ pc = "loop" => frame.i \in 1..3
    /\ Category(ret) = "username" =>
          Keys(Get(ret, "platforms")) = <<"github", "linkedin">>

\* C2 witness: github failed and linkedin was still checked and found.
C2_Witness ==
    /\ Category(ret) = "username"
    /\ Get(Get(Get(ret, "platforms"), "github"), "found") = Bool(FALSE)
    /\ Get(Get(Get(ret, "platforms"), "linkedin"), "found") = Bool(TRUE)

\* C3: safe_request classifies a failure into one category, first match wins:
\* a timeout (a connect timeout included) gives exactly 'Request timeout', a
\* connection failure that is no timeout 'Connection failed', a 4xx or 5xx
\* status 'HTTP Error', anything else the fault's message.
C3_FirstMatchClassification ==
    JustRecorded =>
        LET o == frame.outcome IN
        /\ o.kind = "raise" /\ o.cls \in {"ReadTimeout", "ConnectTimeout"} =>
              frame.response = ErrorResponse("Request timeout")
        /\ o.kind = "raise" /\ o.cls = "ConnectionError" =>
              frame.response = ErrorResponse("Connection failed")
        /\ o.kind = "response" /\ o.code >= 400 =>
              frame.response = ErrorResponse("HTTP Error")
        /\ o.kind = "raise" /\ o.cls \in {"TooManyRedirects", "MemoryError"} =>
              frame.response = ErrorResponse(o.msg)
        /\ o.kind = "response" /\ o.code < 400 =>
              Get(frame.response, "status") = Str("success")

\* C3 witness: the request met a connect timeout, which is both a timeout and a
\* connection failure.
C3_Witness == JustRecorded /\ frame.outcome.cls = "ConnectTimeout"

\* The last call repeats the call the snapshot was taken of, after it.
RepeatsSnapshot ==
    /\ snapshot # NoRecord
    /\ since >= 1
    /\ Category(ret) \in PlaceholderCategories
    /\ Val(ret)[1] = Val(snapshot)[1]

\* C4: a placeholder operation called twice with the same input yields identical
\* records, whatever ran in between; breaches, information and findings are
\* empty and breaches_found is false.
C4_PlaceholdersRepeat ==
    /\ RepeatsSnapshot => ret = snapshot
    /\ Category(ret) = "email" => Get(ret, "breaches") = List(<<>>)
    /\ Category(ret) = "domain" => Get(ret, "information") = Dict(<<>>)
    /\ Category(ret) = "phone" => Get(ret, "breaches_found") = Bool(FALSE)
    /\ Category(ret) = "query" =>
          Get(Get(ret, "tor_monitoring"), "findings") = List(<<>>)

\* C4 witness: the same tor query again, after a search_username ran in between
\* and time passed.
C4_Witness ==
    /\ RepeatsSnapshot
    /\ Category(ret) = "query"
    /\ since = 2
    /\ clock > born

\* C5: every record a category operation returns carries exactly one search_date,
\* the timestamp fixed at construction; the timestamp is never regenerated.
C5_OneTimestampPerSession ==
    /\ search_timestamp = IsoFormat(born)
    /\ ret # NoRecord =>
          /\ KeyCount(ret, "search_date") = 1
          /\ Get(ret, "search_date") = Str(IsoFormat(born))
    /\ snapshot # NoRecord => Get(snapshot, "search_date") = Get(ret, "search_date")

\* C5 witness: a username record returned after the clock moved on, a placeholder
\* record having been returned before.
C5_Witness ==
    /\ Category(ret) = "username"
    /\ snapshot # NoRecord
    /\ clock > born

\* C6, as stated: every returned record has a top-level 'sources' list.
C6_EveryRecordHasSources ==
    ret # NoRecord => HasKey(ret, "sources") /\ Kind(Get(ret, "sources")) = "list"

\* C6, amended: every returned record has its category field and one
\* search_date; a top-level 'sources' list is there for email and domain only;
\* phone lists its sources under 'sources_checked', tor under
\* tor_monitoring.sources, and username lists none.
C6_SourcesOnlyForEmailAndDomain ==
    ret # NoRecord =>
        /\ Category(ret) \in PlaceholderCategories \cup {"username"}
        /\ KeyCount(ret, "search_date") = 1
        /\ HasKey(ret, "sources") <=> Category(ret) \in {"email", "domain"}
        /\ HasKey(ret, "sources") => Kind(Get(ret, "sources")) = "list"
        /\ Category(ret) = "phone" => Kind(Get(ret, "sources_checked")) = "list"
        /\ Category(ret) = "query" =>
              Kind(Get(Get(ret, "tor_monitoring"), "sources")) = "list"
        /\ Category(ret) = "username" => Keys(ret) = <<"username", "platforms", "search_date">>

\* C6 witness: a phone record was returned.
C6_Witness == Category(ret) = "phone" /\ ~HasKey(ret, "sources")

\* main ended after a save that wrote the whole file.
SavedFile == pc = "exit" /\ exit_code = "0" /\ file.exists /\ file.content # ""

\* C7, as stated: with --output, the file holds what was printed as the txt export.
C7_FileIsWhatWasPrinted == SavedFile => file.content = stdout[4]

\* C7, amended: with --output and a write that succeeds, the file holds the json
\* export of the stored result, which is not the txt export main printed; both
\* are exports of the same stored result.
C7_FileIsJsonExport ==
    SavedFile =>
        /\ stdout[4] = export_results("txt")
        /\ file.content = export_results("json")
        /\ file.content = Dumps(ret, 0)
        /\ file.content # stdout[4]

\* C7 witness: main saved a username record.
C7_Witness == SavedFile /\ Category(ret) = "username"

GatewayPattern ==
    << <<"request", "github">>, <<"return", "github">>,
       <<"request", "linkedin">>, <<"return", "linkedin">> >>

\* C9: the gateway trace is, per search_username invocation, one request to
\* github, its return, one request to linkedin, its return: no request starts
\* before the one before it returned, none is repeated, and the placeholder
\* operations add nothing to the trace.
C9_GatewayTrace ==
    /\ \A k \in 1..Len(trace) : trace[k] = GatewayPattern[((k - 1) % 4) + 1]
    /\ Len(trace) =
          IF pc \in {"loop", "wait"}
          THEN 4 * (nUsername - 1) + 2 * (frame.i - 1) + (IF pc = "wait" THEN 1 ELSE 0)
          ELSE 4 * nUsername

\* C9 witness: two invocations returned, the last with github failed, and
\* placeholder operations ran too.
C9_Witness ==
    /\ nUsername = 2
    /\ Len(trace) = 8
    /\ pc = "ready"
    /\ snapshot # NoRecord
    /\ since = 2
    /\ Category(ret) = "username"
    /\ Get(Get(Get(ret, "platforms"), "github"), "found") = Bool(FALSE)

\* C10, as stated: each category invocation overwrites the stored result with
\* the record it returns, so an export right after it serializes that record.
C10_InvocationStoresItsRecord ==
    (pc \in {"ready", "display"} /\ ret # NoRecord) =>
        /\ results = ret
        /\ export_results("json") = Dumps(ret, 0)

\* C10, amended: it is main that stores the record: after a command of the shell
\* the stored result is the record the operation returned, and the export main
\* prints serializes it; a category method called by itself leaves the stored
\* result as it was.
C10_MainStoresTheRecord ==
    /\ (caller = "cli" /\ ret # NoRecord) =>
          /\ results = ret
          /\ export_results("json") = Dumps(ret, 0)
          /\ exit_code = "0" => stdout[4] = export_results("txt")
    /\ caller = "lib" => results = Dict(<<>>)

\* C10 witness: main ran the username command to its end.
C10_Witness ==
    /\ caller = "cli"
    /\ pc = "exit"
    /\ exit_code = "0"
    /\ Category(ret) = "username"
    /\ results = ret

====
